---------------------------- MODULE Spec2Model ----------------------------
(***************************************************************************)
(* The notebook DL_AA_Section3.ipynb: a single linear neuron                *)
(* (output = weight * x + bias) trained by gradient descent on one sample.  *)
(*                                                                          *)
(* The notebook is a straight-line program: its code cells run in order in  *)
(* one kernel.  The state is the kernel's namespace (one variable per       *)
(* Python name), the state of numpy's global random generator, the text     *)
(* printed so far and the position in the notebook (pc).                    *)
(*                                                                          *)
(* Numbers.  Python floats are modelled as decimal fixed-point numbers      *)
(* with six fractional digits: the integer v stands for v / Scale.          *)
(* Addition and subtraction are exact; a product is rounded to the nearest  *)
(* representable value (ties to even), as IEEE-754 rounds a product to the  *)
(* nearest double.  The model therefore has finite precision, like the      *)
(* code, but a coarser one (1e-6 instead of about 1e-16).                   *)
(***************************************************************************)
EXTENDS Integers, Sequences, FiniteSets, TLC

VARIABLES
    lit,            \* the literals of the source (seed, x, target, learning rate, range)
    rng,            \* numpy's global generator: [seeded, seed, pos]
    names,          \* the names bound in the kernel's namespace
    weight, bias,   \* the two parameters
    x, target,      \* the training sample
    output, loss,   \* forward pass
    error, grad_weight, grad_bias,      \* backward pass
    learning_rate,
    new_output, new_loss,               \* cell 9's re-evaluation
    losses,         \* the loss trace of cell 11
    range_it,       \* the next value range(...) yields
    i,              \* the loop variable
    stdout,         \* what the cells have printed, one record per print block
    pc,             \* the next piece of code to run
    inits,          \* history: the (weight, bias) pairs drawn in this run
    updates,        \* history: gradient-descent assignments since the last draw
    runs            \* history: [inits, losses] of the completed runs

vars == << lit, rng, names, weight, bias, x, target, output, loss, error,
           grad_weight, grad_bias, learning_rate, new_output, new_loss,
           losses, range_it, i, stdout, pc, inits, updates, runs >>

----------------------------------------------------------------------------
(* Fixed-point arithmetic *)

Base == 10 * 10 * 10
Scale == Base * Base

Abs(a) == IF a < 0 THEN -a ELSE a

\* n / d rounded to the nearest integer, ties to the even one (d > 0).
RoundDiv(n, d) ==
    LET q == n \div d
        r == n % d
    IN  IF 2 * r < d THEN q
        ELSE IF 2 * r > d THEN q + 1
        ELSE IF q % 2 = 0 THEN q ELSE q + 1

Add(a, b) == a + b

Sub(a, b) == a - b

\* a * b / Scale rounded to nearest, computed in three-digit limbs so that no
\* intermediate value leaves the 32-bit range.
Mul(a, b) ==
    LET ah == a \div Base
        al == a % Base
        bh == b \div Base
        bl == b % Base
        mid == ah * bl + al * bh
        mh == mid \div Base
        ml == mid % Base
        rem == ml * Base + al * bl
        q == ah * bh + mh + (rem \div Scale)
        r == rem % Scale
    IN  IF 2 * r < Scale THEN q
        ELSE IF 2 * r > Scale THEN q + 1
        ELSE IF q % 2 = 0 THEN q ELSE q + 1

\* (v) ** 2
Sq(a) == Mul(a, a)

\* 2 * v with the int 2: exact.
Twice(a) == 2 * a

\* f"{v:.3f}": the number of thousandths shown.
Fmt3(v) == RoundDiv(v, Base)

----------------------------------------------------------------------------
(* The literals of the source and the random generator *)

\* np.random.seed(42), x = 3.0, target = 6.0, learning_rate = 0.01, range(100)
Literals ==
    [seed |-> 42, x |-> 3 * Scale, target |-> 6 * Scale,
     learning_rate |-> Scale \div 100, iterations |-> 100]

\* Seeds other than 42 stand for other states of the generator: sample
\* streams that make the cases of the claims happen.
SampleSeeds == {1, 2, 3}

Seeds == {42} \cup SampleSeeds

\* The first four standard normal variates np.random.randn() returns after
\* np.random.seed(s).  Row 42 is numpy's stream (0.4967141530, -0.1382643012,
\* 0.6476885381, 1.5230298564), which the recorded outputs of cells 3 and 11
\* show to three decimals.  Row 1 starts at the values cell 3 displays
\* (0.497, -0.138) and resets onto the solution (2.0, 0.0); row 2 starts
\* above the target; row 3 starts close to it.
Variates(s) ==
    CASE s = 42 -> << 496714, -138264, 647689, 1523030 >>
      [] s = 1  -> << 497000, -138000, 2000000, 0 >>
      [] s = 2  -> << 2500000, 1000000, -1250000, 500000 >>
      [] OTHER  -> << 1764052, 400157, 978738, 2240893 >>

\* The generator states a draw may start from: the seeded state, or, when
\* the generator was never seeded, whatever the operating system's entropy
\* gave it.
Seeded(g) ==
    IF g.seeded THEN {g}
    ELSE {[seeded |-> TRUE, seed |-> s, pos |-> 0] : s \in Seeds}

\* np.random.randn(): the variate at the generator's position.
Randn(g) == Variates(g.seed)[g.pos + 1]

Advance(g) == [g EXCEPT !.pos = g.pos + 1]

\* The bounded input set: the literals the cells may hold instead of the
\* reference run's.
Xs == {3 * Scale, -(3 * Scale) \div 2}

Targets == {6 * Scale, -2 * Scale}

\* 0, 0.01, 0.05 and 0.1, and two rates under which the error grows by one
\* percent a step for x = 3.0: 0.1005 and -0.0005.
LearningRates ==
    {0, Scale \div 100, Scale \div 20, Scale \div 10,
     (Scale \div 10) + (Scale \div 2000), -(Scale \div 2000)}

\* Rates under which the error doubles at every step for x = 3.0, 0.15 (with
\* a change of sign) and -0.05, on a loop short enough for the values to
\* stay in range.
SteepRates == {3 * (Scale \div 20), -(Scale \div 20)}

ShortLoop == 2

LitChoices ==
    [seed : Seeds, x : Xs, target : Targets,
     learning_rate : LearningRates, iterations : {Literals.iterations}]
    \cup
    [seed : Seeds, x : Xs, target : Targets,
     learning_rate : SteepRates, iterations : {ShortLoop}]

----------------------------------------------------------------------------
(* The pure computations of the cells *)

\* output = weight * x + bias
Forward(w, b, xx) == Add(Mul(w, xx), b)

\* loss = (output - target) ** 2
Loss(o, t) == Sq(Sub(o, t))

\* error = output - target
Error(o, t) == Sub(o, t)

\* Faulty variant: the factor 2 of the derivative is lost.
GradWeightUnscaled(e, xx) == Mul(e, xx)

\* grad_weight = 2 * error * x
GradWeight(e, xx) == Mul(Twice(e), xx)

\* Faulty variant: the factor 2 of the derivative is lost.
GradBiasUnscaled(e) == e

\* grad_bias = 2 * error
GradBias(e) == Twice(e)

\* Faulty variant: the step goes up the gradient.
DescendAscend(p, lr, g) == Add(p, Mul(lr, g))

\* Faulty variant: the step uses the literal 0.01 instead of learning_rate.
DescendFixedRate(p, lr, g) == Sub(p, Mul(Literals.learning_rate, g))

\* Faulty variant: the difference is computed and not assigned.
DescendDropped(p, lr, g) == p

\* p - learning_rate * grad
Descend(p, lr, g) == Sub(p, Mul(lr, g))

----------------------------------------------------------------------------
(* The fresh kernel *)

Fresh(l) ==
    /\ lit = l
    /\ rng = [seeded |-> FALSE, seed |-> 0, pos |-> 0]
    /\ names = {}
    /\ weight = 0 /\ bias = 0 /\ x = 0 /\ target = 0
    /\ output = 0 /\ loss = 0
    /\ error = 0 /\ grad_weight = 0 /\ grad_bias = 0
    /\ learning_rate = 0
    /\ new_output = 0 /\ new_loss = 0
    /\ losses = << >>
    /\ range_it = 0
    /\ i = 0
    /\ stdout = << >>
    /\ pc = "cell1"
    /\ inits = << >>
    /\ updates = 0

Init == Fresh(Literals) /\ runs = << >>

InitGen == \E l \in LitChoices : Fresh(l) /\ runs = << >>

----------------------------------------------------------------------------
(* The cells *)

\* Faulty variant: the imports without the call of np.random.seed.
Cell1NoSeed ==
    /\ pc = "cell1"
    /\ names' = names \cup {"np", "plt"}
    /\ pc' = "cell3"
    /\ UNCHANGED << updates, lit, rng, weight, bias, x, target, output, loss, error,
                    grad_weight, grad_bias, learning_rate, new_output,
                    new_loss, losses, range_it, i, stdout, inits, runs >>

\* Cell 1: imports and np.random.seed(42).
Cell1 ==
    /\ pc = "cell1"
    /\ rng' = [seeded |-> TRUE, seed |-> lit.seed, pos |-> 0]
    /\ names' = names \cup {"np", "plt"}
    /\ pc' = "cell3"
    /\ UNCHANGED << updates, lit, weight, bias, x, target, output, loss, error,
                    grad_weight, grad_bias, learning_rate, new_output,
                    new_loss, losses, range_it, i, stdout, inits, runs >>

\* Faulty variant: the two draws in the other order, bias first.
Cell3BiasFirst ==
    /\ pc = "cell3"
    /\ \E g \in Seeded(rng) :
          /\ bias' = Randn(g)
          /\ weight' = Randn(Advance(g))
          /\ rng' = Advance(Advance(g))
    /\ x' = lit.x
    /\ target' = lit.target
    /\ names' = names \cup {"weight", "bias", "x", "target"}
    /\ stdout' = Append(stdout, [cell |-> 3, weight |-> Fmt3(weight'),
                                 bias |-> Fmt3(bias'), x |-> x',
                                 target |-> target'])
    /\ updates' = 0
    /\ inits' = Append(inits, << weight', bias' >>)
    /\ pc' = "cell5"
    /\ UNCHANGED << lit, output, loss, error, grad_weight, grad_bias,
                    learning_rate, new_output, new_loss, losses, range_it,
                    i, runs >>

\* Cell 3: the parameters are drawn, the sample is set, both are printed.
Cell3 ==
    /\ pc = "cell3"
    /\ \E g \in Seeded(rng) :
          /\ weight' = Randn(g)
          /\ bias' = Randn(Advance(g))
          /\ rng' = Advance(Advance(g))
    /\ x' = lit.x
    /\ target' = lit.target
    /\ names' = names \cup {"weight", "bias", "x", "target"}
    /\ stdout' = Append(stdout, [cell |-> 3, weight |-> Fmt3(weight'),
                                 bias |-> Fmt3(bias'), x |-> x',
                                 target |-> target'])
    /\ updates' = 0
    /\ inits' = Append(inits, << weight', bias' >>)
    /\ pc' = "cell5"
    /\ UNCHANGED << lit, output, loss, error, grad_weight, grad_bias,
                    learning_rate, new_output, new_loss, losses, range_it,
                    i, runs >>

\* Cell 5: forward pass and loss.
Cell5 ==
    /\ pc = "cell5"
    /\ output' = Forward(weight, bias, x)
    /\ loss' = Loss(output', target)
    /\ names' = names \cup {"output", "loss"}
    /\ stdout' = Append(stdout, [cell |-> 5, output |-> Fmt3(output'),
                                 target |-> target, loss |-> Fmt3(loss'),
                                 off |-> Fmt3(Abs(Sub(output', target)))])
    /\ pc' = "cell7"
    /\ UNCHANGED << updates, lit, rng, weight, bias, x, target, error, grad_weight,
                    grad_bias, learning_rate, new_output, new_loss, losses,
                    range_it, i, inits, runs >>

\* Cell 7: backward pass.
Cell7 ==
    /\ pc = "cell7"
    /\ error' = Error(output, target)
    /\ grad_weight' = GradWeight(error', x)
    /\ grad_bias' = GradBias(error')
    /\ names' = names \cup {"error", "grad_weight", "grad_bias"}
    /\ stdout' = Append(stdout, [cell |-> 7, error |-> Fmt3(error'),
                                 grad_weight |-> Fmt3(grad_weight'),
                                 grad_bias |-> Fmt3(grad_bias')])
    /\ pc' = "cell9"
    /\ UNCHANGED << updates, lit, rng, weight, bias, x, target, output, loss,
                    learning_rate, new_output, new_loss, losses, range_it,
                    i, inits, runs >>

\* Cell 9: one gradient-descent update and the re-evaluation of the network.
Cell9 ==
    /\ pc = "cell9"
    /\ learning_rate' = lit.learning_rate
    /\ weight' = Descend(weight, learning_rate', grad_weight)
    /\ bias' = Descend(bias, learning_rate', grad_bias)
    /\ new_output' = Forward(weight', bias', x)
    /\ new_loss' = Loss(new_output', target)
    /\ names' = names \cup {"learning_rate", "new_output", "new_loss"}
    /\ stdout' = Append(stdout, [cell |-> 9, weight |-> Fmt3(weight'),
                                 bias |-> Fmt3(bias'),
                                 new_output |-> Fmt3(new_output'),
                                 new_loss |-> Fmt3(new_loss'),
                                 reduced |-> Fmt3(Sub(loss, new_loss'))])
    /\ updates' = updates + 1
    /\ pc' = "cell11"
    /\ UNCHANGED << lit, rng, x, target, output, loss, error, grad_weight,
                    grad_bias, losses, range_it, i, inits, runs >>

\* Faulty variant: cell 11 without the two draws; the loop starts from the
\* parameters cell 9 left.
Cell11NoReset ==
    /\ pc = "cell11"
    /\ losses' = << >>
    /\ range_it' = 0
    /\ names' = names \cup {"losses"}
    /\ pc' = IF 0 < lit.iterations THEN "loop_forward" ELSE "report"
    /\ UNCHANGED << lit, rng, weight, bias, x, target, output, loss, error,
                    grad_weight, grad_bias, learning_rate, new_output,
                    new_loss, i, stdout, inits, updates, runs >>

\* Cell 11, lines 270-274: the reset, the empty trace and the loop's iterator.
Cell11Reset ==
    /\ pc = "cell11"
    /\ \E g \in Seeded(rng) :
          /\ weight' = Randn(g)
          /\ bias' = Randn(Advance(g))
          /\ rng' = Advance(Advance(g))
    /\ losses' = << >>
    /\ range_it' = 0
    /\ names' = names \cup {"losses"}
    /\ updates' = 0
    /\ inits' = Append(inits, << weight', bias' >>)
    /\ pc' = IF 0 < lit.iterations THEN "loop_forward" ELSE "report"
    /\ UNCHANGED << lit, x, target, output, loss, error, grad_weight,
                    grad_bias, learning_rate, new_output, new_loss, i,
                    stdout, runs >>

\* Faulty variant: the forward pass without losses.append(loss).
LoopForwardNoAppend ==
    /\ pc = "loop_forward"
    /\ i' = range_it
    /\ range_it' = range_it + 1
    /\ output' = Forward(weight, bias, x)
    /\ loss' = Loss(output', target)
    /\ names' = names \cup {"i"}
    /\ pc' = "loop_backward"
    /\ UNCHANGED << updates, lit, rng, weight, bias, x, target, error, grad_weight,
                    grad_bias, learning_rate, new_output, new_loss, losses,
                    stdout, inits, runs >>

\* Faulty variant: the seeding and the draws of the parameters repeated inside the
\* loop body.
LoopForwardReinit ==
    /\ pc = "loop_forward"
    /\ i' = range_it
    /\ range_it' = range_it + 1
    /\ rng' = [seeded |-> TRUE, seed |-> lit.seed, pos |-> 2]
    /\ weight' = Variates(lit.seed)[1]
    /\ bias' = Variates(lit.seed)[2]
    /\ output' = Forward(weight', bias', x)
    /\ loss' = Loss(output', target)
    /\ losses' = Append(losses, loss')
    /\ names' = names \cup {"i"}
    /\ pc' = "loop_backward"
    /\ UNCHANGED << updates, lit, x, target, error, grad_weight, grad_bias,
                    learning_rate, new_output, new_loss, stdout, inits,
                    runs >>

\* An iteration starts: i is bound, the forward pass runs and the loss is
\* appended to the trace.
LoopForward ==
    /\ pc = "loop_forward"
    /\ i' = range_it
    /\ range_it' = range_it + 1
    /\ output' = Forward(weight, bias, x)
    /\ loss' = Loss(output', target)
    /\ losses' = Append(losses, loss')
    /\ names' = names \cup {"i"}
    /\ pc' = "loop_backward"
    /\ UNCHANGED << updates, lit, rng, weight, bias, x, target, error, grad_weight,
                    grad_bias, learning_rate, new_output, new_loss, stdout,
                    inits, runs >>

\* The iteration's backward pass.
LoopBackward ==
    /\ pc = "loop_backward"
    /\ error' = Error(output, target)
    /\ grad_weight' = GradWeight(error', x)
    /\ grad_bias' = GradBias(error')
    /\ pc' = "loop_update"
    /\ UNCHANGED << updates, lit, rng, names, weight, bias, x, target, output, loss,
                    learning_rate, new_output, new_loss, losses, range_it,
                    i, stdout, inits, runs >>

\* Faulty variant: the loss is recorded after the update, from the new parameters.
LoopUpdateRecordsAfter ==
    /\ pc = "loop_update"
    /\ weight' = Descend(weight, learning_rate, grad_weight)
    /\ bias' = Descend(bias, learning_rate, grad_bias)
    /\ losses' = [losses EXCEPT
                     ![Len(losses)] = Loss(Forward(weight', bias', x), target)]
    /\ updates' = updates + 1
    /\ pc' = IF range_it < lit.iterations THEN "loop_forward" ELSE "report"
    /\ UNCHANGED << lit, rng, names, x, target, output, loss, error,
                    grad_weight, grad_bias, learning_rate, new_output,
                    new_loss, range_it, i, stdout, inits, runs >>

\* Faulty variant: the loop breaks as soon as the recorded loss is 0.
LoopUpdateEarlyExit ==
    /\ pc = "loop_update"
    /\ weight' = Descend(weight, learning_rate, grad_weight)
    /\ bias' = Descend(bias, learning_rate, grad_bias)
    /\ updates' = updates + 1
    /\ pc' = IF range_it < lit.iterations /\ loss # 0
             THEN "loop_forward" ELSE "report"
    /\ UNCHANGED << lit, rng, names, x, target, output, loss, error,
                    grad_weight, grad_bias, learning_rate, new_output,
                    new_loss, losses, range_it, i, stdout, inits, runs >>

\* Faulty variant: the update also decays the learning rate by one percent.
LoopUpdateDecay ==
    /\ pc = "loop_update"
    /\ weight' = Descend(weight, learning_rate, grad_weight)
    /\ bias' = Descend(bias, learning_rate, grad_bias)
    /\ learning_rate' = Mul(learning_rate, 99 * (Scale \div 100))
    /\ updates' = updates + 1
    /\ pc' = IF range_it < lit.iterations THEN "loop_forward" ELSE "report"
    /\ UNCHANGED << lit, rng, names, x, target, output, loss, error,
                    grad_weight, grad_bias, new_output, new_loss, losses,
                    range_it, i, stdout, inits, runs >>

\* The iteration's gradient-descent update, and the loop's test.
LoopUpdate ==
    /\ pc = "loop_update"
    /\ weight' = Descend(weight, learning_rate, grad_weight)
    /\ bias' = Descend(bias, learning_rate, grad_bias)
    /\ updates' = updates + 1
    /\ pc' = IF range_it < lit.iterations THEN "loop_forward" ELSE "report"
    /\ UNCHANGED << lit, rng, names, x, target, output, loss, error,
                    grad_weight, grad_bias, learning_rate, new_output,
                    new_loss, losses, range_it, i, stdout, inits, runs >>

\* Cell 11 after the loop: the plot of losses and the three final prints.
Cell11Report ==
    /\ pc = "report"
    /\ stdout' = Append(stdout, [cell |-> 11, weight |-> Fmt3(weight),
                                 bias |-> Fmt3(bias),
                                 prediction |-> Fmt3(Forward(weight, bias, x)),
                                 target |-> target])
    /\ pc' = "done"
    /\ UNCHANGED << updates, lit, rng, names, weight, bias, x, target, output, loss,
                    error, grad_weight, grad_bias, learning_rate, new_output,
                    new_loss, losses, range_it, i, inits, runs >>

Next ==
    \/ Cell1
    \/ Cell3
    \/ Cell5
    \/ Cell7
    \/ Cell9
    \/ Cell11Reset
    \/ LoopForward
    \/ LoopBackward
    \/ LoopUpdate
    \/ Cell11Report

\* The number of complete runs of the notebook a behaviour may hold.
MaxRuns == 2

\* The notebook is run again from a restarted kernel: the namespace and the
\* generator are fresh, the literals are the same.  The finished run's
\* initial parameters and loss trace are kept in runs.
Restart ==
    /\ pc = "done"
    /\ Len(runs) + 1 < MaxRuns
    /\ runs' = Append(runs, [inits |-> inits, losses |-> losses])
    /\ rng' = [seeded |-> FALSE, seed |-> 0, pos |-> 0]
    /\ names' = {}
    /\ weight' = 0 /\ bias' = 0 /\ x' = 0 /\ target' = 0
    /\ output' = 0 /\ loss' = 0
    /\ error' = 0 /\ grad_weight' = 0 /\ grad_bias' = 0
    /\ learning_rate' = 0
    /\ new_output' = 0 /\ new_loss' = 0
    /\ losses' = << >>
    /\ range_it' = 0
    /\ i' = 0
    /\ stdout' = << >>
    /\ pc' = "cell1"
    /\ inits' = << >>
    /\ updates' = 0
    /\ UNCHANGED lit

NextRerun == Next \/ Restart

\* The notebook as written.
Spec == Init /\ [][Next]_vars

\* The notebook with its literals and the generator's stream drawn from the
\* bounded input set.
SpecGen == InitGen /\ [][Next]_vars


----------------------------------------------------------------------------
(* Properties *)

\* The model against the notebook's recorded outputs (lines 65-67, 111-114,
\* 159-161, 200-206 and 262-264): what the cells of the reference run print.
RecordedOutputs ==
    (lit = Literals /\ pc = "done") =>
        /\ Len(stdout) = 5
        /\ stdout[1] = [cell |-> 3, weight |-> 497, bias |-> -138,
                        x |-> 3 * Scale, target |-> 6 * Scale]
        /\ stdout[2] = [cell |-> 5, output |-> 1352, target |-> 6 * Scale,
                        loss |-> 21605, off |-> 4648]
        /\ stdout[3] = [cell |-> 7, error |-> -4648, grad_weight |-> -27889,
                        grad_bias |-> -9296]
        /\ stdout[4] = [cell |-> 9, weight |-> 776, bias |-> -45,
                        new_output |-> 2282, new_loss |-> 13827,
                        reduced |-> 7778]
        /\ stdout[5] = [cell |-> 11, weight |-> 1408, bias |-> 1776,
                        prediction |-> 6000, target |-> 6 * Scale]

\* The error and the two updated parameters written out from the inputs of
\* a step, in the order the code evaluates them.
StepError(w, b, xx, t) == Sub(Add(Mul(w, xx), b), t)

StepLoss(w, b, xx, t) == Mul(StepError(w, b, xx, t), StepError(w, b, xx, t))

StepWeight(w, b, xx, t, lr) ==
    Sub(w, Mul(lr, Mul(2 * StepError(w, b, xx, t), xx)))

StepBias(w, b, xx, t, lr) == Sub(b, Mul(lr, 2 * StepError(w, b, xx, t)))

\* A value rounded to two decimals: the number of hundredths.
Fmt2(v) == RoundDiv(v, 10 * Base)

InLoop == pc \in {"loop_forward", "loop_backward", "loop_update"}

AfterReset == InLoop \/ pc \in {"report", "done"}

\* C1: one step yields weight' = weight - learning_rate * 2 * (weight*x + bias
\* - target) * x and bias' = bias - learning_rate * 2 * (weight*x + bias -
\* target), for every input of the bounded set; the update of the walkthrough
\* (cell 9, from the forward and backward pass of cells 5 and 7) and the
\* update of a loop iteration both compute it.
C1_UpdateRule ==
    [][(pc \in {"cell9", "loop_update"}) =>
          /\ weight' = StepWeight(weight, bias, x, target, learning_rate')
          /\ bias' = StepBias(weight, bias, x, target, learning_rate')]_vars

\* A loop update has acted, after the walkthrough's, outside the reference
\* configuration, and it moved both parameters.
C1_Witness ==
    /\ pc = "loop_forward"
    /\ range_it = 1
    /\ lit.x # Literals.x
    /\ lit.target # Literals.target
    /\ lit.learning_rate \notin {0, Literals.learning_rate}
    /\ weight # inits[2][1]
    /\ bias # inits[2][2]
    /\ stdout[Len(stdout)].cell = 9

\* C2: the loss an iteration records is the one computed before its update:
\* the forward pass appends the loss of the weight and bias the iteration
\* starts with, and when the update runs the last entry is still the loss of
\* the parameters it is about to overwrite; the update does not write the
\* trace.
C2_LossBeforeUpdate ==
    [][/\ (pc = "loop_forward") =>
             /\ losses' = Append(losses, StepLoss(weight, bias, x, target))
             /\ weight' = weight
             /\ bias' = bias
       /\ (pc = "loop_update") =>
             /\ losses[Len(losses)] = StepLoss(weight, bias, x, target)
             /\ losses' = losses]_vars

\* An update has run and the loss of the updated parameters differs from the
\* entry the iteration recorded.
C2_Witness ==
    /\ pc = "loop_forward"
    /\ Len(losses) = 2
    /\ losses[2] # StepLoss(weight, bias, x, target)
    /\ losses[2] = StepLoss(StepWeight(inits[2][1], inits[2][2], x, target, learning_rate),
                            StepBias(inits[2][1], inits[2][2], x, target, learning_rate),
                            x, target)

\* C3: the trace holds one entry per iteration started (the values the
\* loop's iterator has yielded), an entry once appended never changes, and
\* the gradients and the updated parameters of an iteration are functions of
\* weight, bias, x, target and learning_rate alone.
C3_AppendOnly ==
    /\ [](Len(losses) = range_it /\ ("i" \in names => i = range_it - 1))
    /\ [][/\ Len(losses') \in {Len(losses), Len(losses) + 1}
          /\ \A k \in 1..Len(losses) : losses'[k] = losses[k]
          /\ (pc = "loop_backward") =>
                /\ error' = StepError(weight, bias, x, target)
                /\ grad_weight' = Mul(2 * error', x)
                /\ grad_bias' = 2 * error'
          /\ (pc = "loop_update") =>
                /\ weight' = StepWeight(weight, bias, x, target, learning_rate)
                /\ bias' = StepBias(weight, bias, x, target, learning_rate)]_vars

\* The third iteration has started and the trace holds three different
\* entries.
C3_Witness ==
    /\ pc = "loop_backward"
    /\ range_it = 3
    /\ Len(losses) = 3
    /\ losses[1] # losses[2]
    /\ losses[2] # losses[3]

\* The walkthrough started from the parameters cell 3 displays, weight =
\* 0.497 and bias = -0.138, on the sample x = 3.0, target = 6.0.
DisplayedStart ==
    /\ Len(inits) >= 1
    /\ inits[1] = << 497000, -138000 >>
    /\ x = 3 * Scale
    /\ target = 6 * Scale

\* C4 (as amended): with x = 3.0, target = 6.0, weight = 0.497 and bias =
\* -0.138 the forward and backward pass give output = 1.353, loss = 21.59,
\* error = -4.647, grad_weight = -27.88 and grad_bias = -9.29, each rounded
\* to the decimals shown.
C4_ForwardBackwardValues ==
    (pc = "cell9" /\ DisplayedStart) =>
        /\ weight = 497000 /\ bias = -138000
        /\ Fmt3(output) = 1353
        /\ Fmt2(loss) = 2159
        /\ Fmt3(error) = -4647
        /\ Fmt2(grad_weight) = -2788
        /\ Fmt2(grad_bias) = -929

\* C4 as stated: the same, with loss = 21.60.
C4_AsStated ==
    (pc = "cell9" /\ DisplayedStart) =>
        /\ Fmt3(output) = 1353
        /\ Fmt2(loss) = 2160
        /\ Fmt3(error) = -4647
        /\ Fmt2(grad_weight) = -2788
        /\ Fmt2(grad_bias) = -929

\* Cells 5 and 7 have run from weight = 0.497 and bias = -0.138.
C4_Witness ==
    /\ pc = "cell9"
    /\ DisplayedStart
    /\ weight = 497000 /\ bias = -138000
    /\ stdout[Len(stdout)].cell = 7
    /\ loss = 21594609

\* C5 (as amended): after one step with learning_rate = 0.01 from weight =
\* 0.497, bias = -0.138, x = 3.0, target = 6.0 the parameters are weight =
\* 0.776 and bias = -0.045 (3 decimals), and the loss recomputed with the
\* updated parameters is 13.82, strictly less than the loss before the
\* update, 21.59.
C5_OneStepValues ==
    (pc = "cell11" /\ DisplayedStart /\ learning_rate = Scale \div 100) =>
        /\ Fmt3(weight) = 776
        /\ Fmt3(bias) = -45
        /\ Fmt2(new_loss) = 1382
        /\ Fmt2(loss) = 2159
        /\ new_loss < loss

\* C5 as stated: the same, with the losses 13.83 and 21.60.
C5_AsStated ==
    (pc = "cell11" /\ DisplayedStart /\ learning_rate = Scale \div 100) =>
        /\ Fmt3(weight) = 776
        /\ Fmt3(bias) = -45
        /\ Fmt2(new_loss) = 1383
        /\ Fmt2(loss) = 2160
        /\ new_loss < loss

\* Cell 9 has run with learning_rate = 0.01 from weight = 0.497 and bias =
\* -0.138 and has moved both parameters.
C5_Witness ==
    /\ pc = "cell11"
    /\ DisplayedStart
    /\ learning_rate = Scale \div 100
    /\ weight = 775820 /\ bias = -45060
    /\ stdout[Len(stdout)].cell = 9

\* C6: with learning_rate = 0 the parameters keep their starting values and
\* every recorded loss equals the initial loss, after any number of steps
\* from any starting weight and bias: the walkthrough's step leaves the
\* parameters of the first initialization and the loss unchanged, and
\* throughout the loop weight and bias are those drawn at the reset and
\* every entry of losses is their loss.
C6_ZeroRateFrame ==
    (lit.learning_rate = 0) =>
        /\ (pc = "cell11") =>
              /\ << weight, bias >> = inits[1]
              /\ new_loss = loss
        /\ AfterReset =>
              /\ << weight, bias >> = inits[2]
              /\ \A k \in 1..Len(losses) :
                    losses[k] = StepLoss(inits[2][1], inits[2][2], x, target)

\* The loop has run to its end with learning_rate = 0 from a start whose
\* gradients are not zero.
C6_Witness ==
    /\ pc = "done"
    /\ lit.learning_rate = 0
    /\ learning_rate = 0
    /\ Len(losses) = lit.iterations
    /\ grad_weight # 0
    /\ grad_bias # 0
    /\ losses[1] # 0

\* The tolerances of C7, down to half a unit of the third decimal.
Tolerances == {Scale \div 2, Scale \div 100, Scale \div 2000}

ReferenceSample ==
    /\ lit.x = Literals.x
    /\ lit.target = Literals.target
    /\ lit.learning_rate = Literals.learning_rate

AbsError == Abs(StepError(weight, bias, x, target))

C8_FinalNearTwoAndZero ==
    (pc = "done" /\ lit = Literals) =>
        /\ Abs(weight - 2 * Scale) <= Scale \div 10
        /\ Abs(bias) <= Scale \div 10

\* C9: complete runs seeded with the same value draw the same initial
\* weight and bias at each initialization and record the same losses, entry
\* by entry.
C9_SameSeedSameRun ==
    \A r \in 1..Len(runs) :
        /\ Len(inits) <= Len(runs[r].inits)
        /\ \A k \in 1..Len(inits) : inits[k] = runs[r].inits[k]
        /\ Len(losses) <= Len(runs[r].losses)
        /\ \A k \in 1..Len(losses) : losses[k] = runs[r].losses[k]
        /\ (pc = "done") =>
              /\ inits = runs[r].inits
              /\ losses = runs[r].losses

\* A second run has finished after a first one whose two initializations
\* differ and whose losses are not all the same.
C9_Witness ==
    /\ pc = "done"
    /\ Len(runs) = 1
    /\ Len(runs[1].inits) = 2
    /\ runs[1].inits[1] # runs[1].inits[2]
    /\ Len(runs[1].losses) = lit.iterations
    /\ runs[1].losses[1] # runs[1].losses[2]
    /\ Len(losses) = lit.iterations

\* The first gradient-descent update of the run, cell 9's, has run.
AfterFirstUpdate == pc = "cell11" \/ AfterReset

\* A step that changes a parameter is a gradient-descent update.
OnlyDescentWrites ==
    (weight' # weight \/ bias' # bias) =>
        /\ pc \in {"cell9", "loop_update"}
        /\ weight' = Sub(weight, Mul(learning_rate', grad_weight))
        /\ bias' = Sub(bias, Mul(learning_rate', grad_bias))

\* C10 as stated: the parameters are initialized from the generator once,
\* before any training step; after the first gradient-descent update they
\* are changed only by gradient-descent updates and the generator is not
\* drawn from again.
C10_AsStated ==
    [][/\ Len(inits') <= 1
       /\ AfterFirstUpdate => (rng' = rng /\ OnlyDescentWrites)]_vars

\* C10 (as amended): the parameters are initialized from the generator
\* twice, in cell 3 before any training step and again at the reset of cell
\* 11, after the walkthrough's update and before the loop's first step;
\* between the two only cell 9's update changes them, and after the reset
\* they are changed only by the loop's gradient-descent updates and the
\* generator is not drawn from again.
C10_InitializedTwice ==
    /\ [](/\ (pc \in {"cell5", "cell7", "cell9", "cell11"}) =>
                (Len(inits) = 1 /\ rng.pos = 2)
          /\ AfterReset => (Len(inits) = 2 /\ rng.pos = 4)
          /\ (pc \in {"cell5", "cell7", "cell9"}) => << weight, bias >> = inits[1]
          /\ (pc = "loop_forward" /\ range_it = 0) => << weight, bias >> = inits[2])
    /\ [][/\ (pc \in {"cell5", "cell7", "cell9"} \/ AfterReset) =>
                (rng' = rng /\ inits' = inits /\ OnlyDescentWrites)
          /\ (pc = "cell11") =>
                (rng' # rng /\ << weight', bias' >> = inits'[2])]_vars

\* The loop has updated the parameters drawn at the reset, which differ from
\* those of the first initialization and from those cell 9 left.
C10_Witness ==
    /\ pc = "loop_forward"
    /\ range_it = 2
    /\ Len(inits) = 2
    /\ inits[1] # inits[2]
    /\ << weight, bias >> # inits[2]
    /\ rng.pos = 4

\* C11: the generator is seeded exactly once, before any draw; it is drawn
\* exactly twice for the first initialization (weight, then bias), not drawn
\* during the walkthrough's forward pass, backward pass or update, drawn
\* exactly twice more at the reset, and never drawn inside a loop
\* iteration: four draws in the whole run.
C11_FourDraws ==
    /\ [](/\ (pc = "cell1") => (~rng.seeded /\ inits = << >>)
          /\ (pc # "cell1") => (rng.seeded /\ rng.seed = lit.seed)
          /\ (pc = "cell3") => rng.pos = 0
          /\ (pc \in {"cell5", "cell7", "cell9", "cell11"}) => rng.pos = 2
          /\ AfterReset => rng.pos = 4)
    /\ [][/\ (pc = "cell1") =>
                rng' = [seeded |-> TRUE, seed |-> lit.seed, pos |-> 0]
          /\ (pc \in {"cell3", "cell11"}) =>
                /\ rng' = [rng EXCEPT !.pos = rng.pos + 2]
                /\ weight' = Variates(rng.seed)[rng.pos + 1]
                /\ bias' = Variates(rng.seed)[rng.pos + 2]
          /\ (pc \notin {"cell1", "cell3", "cell11"}) => rng' = rng]_vars

\* The reference run has finished: the generator stands after its fourth
\* variate and the loop has run its 100 iterations.
C11_Witness ==
    /\ pc = "done"
    /\ lit = Literals
    /\ rng = [seeded |-> TRUE, seed |-> 42, pos |-> 4]
    /\ Len(losses) = 100
    /\ Len(inits) = 2

\* C12: the loop terminates after exactly 100 iterations (range(100))
\* whatever the values of weight, bias and loss: the run reaches its end,
\* the loop is left only when the iterator is exhausted, and from then on
\* losses holds 100 entries and weight and bias have been updated 100 times
\* since the reset.
C12_HundredIterations ==
    /\ <>(pc = "done")
    /\ Literals.iterations = 100
    /\ [](/\ range_it <= lit.iterations
          /\ (pc \in {"report", "done"}) =>
                /\ range_it = lit.iterations
                /\ Len(losses) = lit.iterations
                /\ updates = lit.iterations
                /\ i = lit.iterations - 1
          /\ InLoop => (updates = range_it \/ updates = range_it - 1))
    /\ [][(InLoop /\ pc' \notin {"loop_forward", "loop_backward",
                                  "loop_update"}) =>
              /\ pc = "loop_update"
              /\ pc' = "report"
              /\ updates' = lit.iterations]_vars

\* A run of 100 iterations has ended although its loss kept growing.
C12_Witness ==
    /\ pc = "done"
    /\ lit.iterations = 100
    /\ lit.learning_rate < 0
    /\ Len(losses) = 100
    /\ updates = 100
    /\ losses[100] > losses[1]
    /\ losses[1] > 0

\* C13: the loop is an independently initialized run: the reset overwrites
\* weight and bias with the generator's third and fourth variates before the
\* loop's first forward pass, so the first iteration reads those variates
\* and every later one reads what the loop's own updates made of them, never
\* a value written by cell 9's update.
C13_LoopStartsFromReset ==
    /\ [](/\ (pc = "loop_forward" /\ range_it = 0) =>
                /\ weight = Variates(lit.seed)[3]
                /\ bias = Variates(lit.seed)[4]
                /\ updates = 0
          /\ (AfterReset /\ range_it >= 1) =>
                losses[1] = StepLoss(Variates(lit.seed)[3],
                                     Variates(lit.seed)[4], x, target)
          /\ (pc = "loop_forward") => updates = range_it)
    /\ [][(pc = "cell11") =>
              /\ pc' \in {"loop_forward", "report"}
              /\ weight' = Variates(rng.seed)[rng.pos + 1]
              /\ bias' = Variates(rng.seed)[rng.pos + 2]
              /\ updates' = 0]_vars

\* The first iteration's forward pass has run from the reset's draws, which
\* differ from the parameters cell 9's update had left.
C13_Witness ==
    /\ pc = "loop_backward"
    /\ range_it = 1
    /\ lit.learning_rate > 0
    /\ stdout[4].cell = 9
    /\ stdout[4].weight # Fmt3(weight)
    /\ stdout[4].bias # Fmt3(bias)
    /\ stdout[4].weight # stdout[1].weight
    /\ << weight, bias >> = inits[2]

\* C14: the sample and the step size are constant for the whole run: x and
\* target are first assigned by cell 3 and learning_rate by cell 9, with the
\* literals of the source (3.0, 6.0 and 0.01 in the notebook as written),
\* and no later step, forward pass, backward pass, update, reset or loop
\* iteration, writes them again.
C14_SampleAndRateConstant ==
    /\ Literals.x = 3 * Scale
    /\ Literals.target = 6 * Scale
    /\ 100 * Literals.learning_rate = Scale
    /\ [](/\ ("x" \in names) <=> ("target" \in names)
          /\ ("x" \in names) <=> (pc # "cell1" /\ pc # "cell3")
          /\ ("learning_rate" \in names) <=> AfterFirstUpdate
          /\ ("x" \in names) => (x = lit.x /\ target = lit.target)
          /\ ("learning_rate" \in names) =>
                learning_rate = lit.learning_rate)
    /\ [][/\ ("x" \in names) => (x' = x /\ target' = target)
          /\ ("learning_rate" \in names) => learning_rate' = learning_rate
          /\ lit' = lit]_vars

\* The notebook as written has run to its end: the parameters have moved,
\* the sample and the rate are those first assigned.
C14_Witness ==
    /\ pc = "done"
    /\ lit = Literals
    /\ x = 3 * Scale
    /\ target = 6 * Scale
    /\ 100 * learning_rate = Scale
    /\ updates = 100
    /\ << weight, bias >> # inits[2]

\* C15: a learning rate that is zero or negative is taken as it is, and no
\* step made with it reduces the loss: the loss recomputed after the single
\* step of cell 9 is at least the loss before it, every entry of the loss
\* trace is at least the one before it, and the loss the next iteration
\* will compute from the parameters just updated is at least the loss the
\* iteration recorded.
C15_NonPositiveRateNeverReduces ==
    (AfterFirstUpdate /\ learning_rate <= 0) =>
        /\ pc = "cell11" => new_loss >= loss
        /\ \A k \in 1..(Len(losses) - 1) : losses[k + 1] >= losses[k]
        /\ (updates > 0 /\ pc = "loop_forward") =>
              Loss(Forward(weight, bias, x), target) >= loss

\* A run with a negative rate went through all its steps and its loss grew
\* at the single step and at every iteration.
C15_Witness ==
    /\ pc = "done"
    /\ learning_rate < 0
    /\ Len(losses) = lit.iterations
    /\ new_loss > StepLoss(inits[1][1], inits[1][2], x, target)
    /\ \A k \in 1..(Len(losses) - 1) : losses[k + 1] > losses[k]

\* The product lr * g is at least one unit of the arithmetic's resolution.
Resolves(lr, g) == Abs(g) > Scale \div lr

\* Parameter p became q under gradient g: never towards the gradient's sign,
\* and not at all when the gradient is zero.
MovesAgainst(p, q, g) ==
    /\ g > 0 => q <= p
    /\ g < 0 => q >= p
    /\ g = 0 => q = p

\* Parameter p became q under gradient g, strictly against its sign.
MovesStrictlyAgainst(p, q, g) ==
    /\ g > 0 => q < p
    /\ g < 0 => q > p
    /\ g = 0 => q = p

\* A gradient-descent update with a positive learning rate.
PositiveUpdate == pc \in {"cell9", "loop_update"} /\ learning_rate' > 0

\* C16 as stated: with a positive learning rate every update moves weight
\* and bias strictly against the sign of their gradients, and leaves them
\* unchanged when the gradient is zero.
C16_AsStated ==
    [][PositiveUpdate =>
          /\ MovesStrictlyAgainst(weight, weight', grad_weight)
          /\ MovesStrictlyAgainst(bias, bias', grad_bias)]_vars

\* C16: with a positive learning rate no update moves a parameter towards
\* the sign of its gradient, a zero gradient leaves the parameter unchanged,
\* and the move is strict whenever the step learning_rate * gradient is at
\* least one unit of the arithmetic's resolution.
C16_AgainstGradient ==
    [][PositiveUpdate =>
          /\ MovesAgainst(weight, weight', grad_weight)
          /\ MovesAgainst(bias, bias', grad_bias)
          /\ Resolves(learning_rate', grad_weight) =>
                MovesStrictlyAgainst(weight, weight', grad_weight)
          /\ Resolves(learning_rate', grad_bias) =>
                MovesStrictlyAgainst(bias, bias', grad_bias)]_vars

\* Cell 9 raised both parameters under negative gradients, and then the
\* loop, started at zero error, made its updates under zero gradients and
\* left the reset's parameters as they were.
C16_Witness ==
    /\ pc = "done"
    /\ learning_rate > 0
    /\ stdout[3].grad_weight < 0
    /\ stdout[3].grad_bias < 0
    /\ stdout[4].weight > stdout[1].weight
    /\ stdout[4].bias > stdout[1].bias
    /\ updates = lit.iterations
    /\ grad_weight = 0
    /\ grad_bias = 0
    /\ << weight, bias >> = inits[2]

\* weight - x * bias
Conserved(w, b, xx) == Sub(w, Mul(xx, b))

\* The accumulated rounding allowed on the conserved quantity: 0.0005.
ConservationTol == Scale \div 2000

\* The rates of the input set under which 100 iterations with x = 3.0 bring
\* the error below the arithmetic's resolution.
ConvergentRates == {Scale \div 100, Scale \div 20}

Factor(lr, xx) == Sub(Scale, Mul(Twice(lr), Add(Sq(xx), Scale)))

\* The rounding allowed on one step's error (0.00001) and on one entry of
\* the loss trace (0.0002).
FactorTol == Scale \div 100000

LossTol == Scale \div 5000

\* The loss above which a step's decrease is resolved by the arithmetic.
LossFloor == Scale \div 100000

\* An update of the loop has just been made: error and loss still hold the
\* values of the iteration that made it.
JustUpdated == updates > 0 /\ pc \in {"loop_forward", "report"}

\* C18 as stated: each step multiplies the error by 1 - 2 * learning_rate *
\* (x^2 + 1); for the reference sample and rate each entry of the loss trace
\* is 0.64 times the one before it and smaller than it while nonzero.
C18_AsStated ==
    /\ JustUpdated =>
          StepError(weight, bias, x, target)
            = Mul(Factor(learning_rate, x), error)
    /\ (ReferenceSample /\ AfterReset) =>
          \A k \in 1..(Len(losses) - 1) :
              /\ losses[k + 1] = Mul(Sq(Factor(learning_rate, x)), losses[k])
              /\ losses[k] # 0 => losses[k + 1] < losses[k]

\* C18: each step multiplies the error by 1 - 2 * learning_rate * (x^2 + 1)
\* up to the rounding of the arithmetic; for the reference sample and rate
\* the factor is 0.8, the error never changes sign, each entry of the loss
\* trace is 0.64 times the one before it up to rounding, no entry is larger
\* than the one before it, and the trace is strictly decreasing while the
\* loss is above the arithmetic's resolution.
C18_ErrorFactor ==
    /\ JustUpdated =>
          Abs(StepError(weight, bias, x, target)
                - Mul(Factor(learning_rate, x), error)) <= FactorTol
    /\ Factor(Literals.learning_rate, Literals.x) = 8 * (Scale \div 10)
    /\ Sq(Factor(Literals.learning_rate, Literals.x)) = 64 * (Scale \div 100)
    /\ (ReferenceSample /\ JustUpdated) =>
          /\ error > 0 => StepError(weight, bias, x, target) >= 0
          /\ error < 0 => StepError(weight, bias, x, target) <= 0
          /\ error = 0 => StepError(weight, bias, x, target) = 0
    /\ (ReferenceSample /\ AfterReset) =>
          \A k \in 1..(Len(losses) - 1) :
              /\ Abs(losses[k + 1]
                       - Mul(Sq(Factor(learning_rate, x)), losses[k]))
                    <= LossTol
              /\ losses[k + 1] <= losses[k]
              /\ losses[k] >= LossFloor => losses[k + 1] < losses[k]

\* The loop of the notebook as written has finished: its error was negative
\* at the first iteration and at the last, and its second loss is 0.64 times
\* the first up to rounding.
C18_Witness ==
    /\ pc = "done"
    /\ lit = Literals
    /\ Len(losses) = lit.iterations
    /\ losses[1] > Scale
    /\ StepError(inits[2][1], inits[2][2], x, target) < 0
    /\ error <= 0
    /\ losses[2] < losses[1]
    /\ Abs(losses[2] - Mul(64 * (Scale \div 100), losses[1])) <= LossTol
    /\ losses[lit.iterations] < LossFloor

\* The rate at which the factor 1 - 2 * learning_rate * (3.0^2 + 1) is 0,
\* and the rate at which it is -1.
ExactRate == Scale \div 20

FlipRate == Scale \div 10

\* The loop runs on x = 3.0 from a nonzero error.
SteepSample ==
    /\ AfterReset
    /\ x = 3 * Scale
    /\ Len(losses) > 0
    /\ StepError(inits[2][1], inits[2][2], x, target) # 0

\* C19 as stated: for x = 3.0 and a nonzero initial error the loss strictly
\* decreases at every step exactly when 0 < learning_rate < 0.1; at 0.05 the
\* error is exactly 0 after one step; at 0.1 the error flips sign at every
\* step and the loss stays constant; above 0.1 the loss strictly increases
\* at every step.
C19_AsStated ==
    SteepSample =>
        /\ (0 < learning_rate /\ learning_rate < FlipRate) <=>
              (\A k \in 1..(Len(losses) - 1) : losses[k + 1] < losses[k])
        /\ (learning_rate = ExactRate /\ JustUpdated) =>
              StepError(weight, bias, x, target) = 0
        /\ (learning_rate = FlipRate /\ JustUpdated) =>
              StepError(weight, bias, x, target) = -error
        /\ learning_rate = FlipRate =>
              \A k \in 1..(Len(losses) - 1) : losses[k + 1] = losses[k]
        /\ learning_rate > FlipRate =>
              \A k \in 1..(Len(losses) - 1) : losses[k + 1] > losses[k]

\* C19: for x = 3.0 and a nonzero initial error: with 0 < learning_rate <
\* 0.1 no step raises the loss and every step started above the
\* arithmetic's resolution strictly lowers it; at 0.05 the error is 0 up to
\* rounding after one step and stays so; at 0.1 every step flips the error
\* to its negative up to rounding, with the loss constant up to rounding;
\* above 0.1 the loss strictly increases at every step; and at or below 0
\* no step lowers the loss.
C19_RateRegimes ==
    SteepSample =>
        /\ (0 < learning_rate /\ learning_rate < FlipRate) =>
              \A k \in 1..(Len(losses) - 1) :
                  /\ losses[k + 1] <= losses[k]
                  /\ losses[k] >= LossFloor => losses[k + 1] < losses[k]
        /\ (learning_rate = ExactRate /\ JustUpdated) =>
              Abs(StepError(weight, bias, x, target)) <= FactorTol
        /\ learning_rate = ExactRate =>
              \A k \in 2..Len(losses) : losses[k] < LossFloor
        /\ (learning_rate = FlipRate /\ JustUpdated) =>
              /\ Abs(StepError(weight, bias, x, target) + error)
                    <= FactorTol
              /\ error > 0 => StepError(weight, bias, x, target) < 0
              /\ error < 0 => StepError(weight, bias, x, target) > 0
        /\ learning_rate = FlipRate =>
              \A k \in 1..(Len(losses) - 1) :
                  Abs(losses[k + 1] - losses[k]) <= LossTol
        /\ learning_rate > FlipRate =>
              \A k \in 1..(Len(losses) - 1) : losses[k + 1] > losses[k]
        /\ learning_rate <= 0 =>
              \A k \in 1..(Len(losses) - 1) : losses[k + 1] >= losses[k]

\* A loop at learning_rate = 0.1 has finished: its last update turned a
\* negative error into a positive one, and its loss trace stayed where it
\* started.
C19_Witness ==
    /\ pc = "done"
    /\ SteepSample
    /\ learning_rate = FlipRate
    /\ Len(losses) = lit.iterations
    /\ losses[1] > Scale
    /\ error < 0
    /\ StepError(weight, bias, x, target) > 0
    /\ Abs(losses[lit.iterations] - losses[1]) <= Scale \div 100

\* The generalised notebook under the kernel's scheduling: a cell that can
\* run does run (the cells are executed in order, and no cell blocks).
FairSpecGen == SpecGen /\ WF_vars(Next)

\* Complete runs of the generalised notebook, one after the other.
SpecRerun == InitGen /\ [][NextRerun]_vars

=============================================================================
